---- MODULE Spec2Model ----
(***************************************************************************)
(* Model of src/src/load_data.py: load_data(filename, filetype="csv").     *)
(* A call lower-cases filetype, dispatches to pd.read_csv, pd.read_excel   *)
(* or pd.read_json inside a try/except that renames some exceptions,       *)
(* raises ValueError for any other filetype, and on success logs            *)
(* len(data) and returns data.                                             *)
(***************************************************************************)
EXTENDS Integers, Sequences, FiniteSets, TLC

(* ---------------------------- bounds ---------------------------------- *)
MaxCalls == 2
MaxRows == 2

Callers == {"c1", "c2"}
Paths == {"a.dat", "b.dat"}

(* ------------------------- strings ------------------------------------ *)
\* A filetype argument is a sequence of characters.
Uppercase == <<"A","B","C","D","E","F","G","H","I","J","K","L","M",
               "N","O","P","Q","R","S","T","U","V","W","X","Y","Z">>
Lowercase == <<"a","b","c","d","e","f","g","h","i","j","k","l","m",
               "n","o","p","q","r","s","t","u","v","w","x","y","z">>

LowerChar(ch) ==
    IF \E i \in 1..Len(Uppercase) : Uppercase[i] = ch
    THEN Lowercase[CHOOSE i \in 1..Len(Uppercase) : Uppercase[i] = ch]
    ELSE ch

\* str.lower()
KeepCase(s) == s
Lower(s) == [i \in 1..Len(s) |-> LowerChar(s[i])]

CSV == <<"c","s","v">>
EXCEL == <<"e","x","c","e","l">>
JSON == <<"j","s","o","n">>
Supported == {CSV, EXCEL, JSON}

\* The filetype arguments the callers pass.
FileTypes == { CSV, <<"C","S","V">>,
               EXCEL, <<"E","x","c","e","l">>,
               JSON,
               <<"X","M","L">> }

(* ------------------------- files and datasets ------------------------- *)
Header == <<"date", "amount">>
Row(i) == [date |-> i, amount |-> 10 * i]
Dataset(n) == [columns |-> Header, rows |-> [i \in 1..n |-> Row(i)]]
Datasets == {Dataset(n) : n \in 0..MaxRows}
NoData == [columns |-> <<>>, rows |-> <<>>]

\* What is at a path: nothing, a file the process may not read, a
\* zero-byte file, a file that is not in the requested format, a file that
\* is not UTF-8 text, or a well-formed file holding a dataset.
FailStates == {"absent", "unreadable", "empty", "malformed", "undecodable"}
FileRecs == {[state |-> s, data |-> NoData] : s \in FailStates}
            \cup {[state |-> "ok", data |-> d] : d \in Datasets}

\* len(data) of a DataFrame: its number of rows.
RowCountPlusOne(d) == Len(d.rows) + 1
RowCount(d) == Len(d.rows)

(* ------------------------- exceptions --------------------------------- *)
\* Python's class hierarchy of the exceptions involved:
\* pd.errors.EmptyDataError, pd.errors.ParserError and UnicodeDecodeError
\* derive from ValueError; FileNotFoundError and PermissionError from
\* OSError; all from Exception.
Parent(cls) ==
    CASE cls \in {"EmptyDataError", "ParserError", "UnicodeDecodeError"} -> "ValueError"
      [] cls \in {"FileNotFoundError", "PermissionError"} -> "OSError"
      [] cls \in {"ValueError", "OSError", "BadZipFile"} -> "Exception"
      [] OTHER -> "none"

RECURSIVE IsInstance(_, _)
IsInstance(cls, base) ==
    IF cls = "none" THEN FALSE
    ELSE IF cls = base THEN TRUE
    ELSE IsInstance(Parent(cls), base)

\* str(e) of a library exception.
ErrText(cls) == "text of " \o cls

\* The exception object a parser raises, as the caller would see it if it
\* were not caught.
LibraryError(cls, f) ==
    [cls |-> cls, template |-> "library", format |-> "none", filename |-> f,
     detail |-> ErrText(cls), value |-> <<>>, cause |-> "none"]

NoError ==
    [cls |-> "none", template |-> "none", format |-> "none", filename |-> "none",
     detail |-> "none", value |-> <<>>, cause |-> "none"]

(* ------------------------- state --------------------------------------- *)
VARIABLES
    fs,         \* the file system: what is at each path (never written)
    libEmpty,   \* the class read_excel / read_json raise on a zero-byte file
    pc,         \* each caller's position in load_data
    filename,   \* the filename argument of the caller's current call
    passed,     \* the filetype argument as the caller passed it
    filetype,   \* the local filetype, after line 59
    data,       \* the local data
    reads,      \* the parser invocations of the current call: <<parser, path>>
    error,      \* the exception the current call raised, or NoError
    result,     \* the dataset the current call returned, or NoData
    log,        \* the records logging.info emitted, oldest first
    logged,     \* the records emitted during the caller's current call
    nCalls,     \* calls made so far
    nReturned   \* calls that returned a dataset so far

vars == <<fs, libEmpty, pc, filename, passed, filetype, data, reads, error,
          result, log, logged, nCalls, nReturned>>

(* ------------------------- the parsers --------------------------------- *)
\* The class pd.read_csv raises on a file, "none" when it parses.
read_csv(file) ==
    CASE file.state = "absent" -> "FileNotFoundError"
      [] file.state = "unreadable" -> "PermissionError"
      [] file.state = "empty" -> "EmptyDataError"
      [] file.state = "malformed" -> "ParserError"
      [] file.state = "undecodable" -> "UnicodeDecodeError"
      [] OTHER -> "none"

\* pd.read_excel: a damaged workbook is a BadZipFile, content that is no
\* workbook at all a ValueError ("format cannot be determined").
read_excel(file) ==
    CASE file.state = "absent" -> "FileNotFoundError"
      [] file.state = "unreadable" -> "PermissionError"
      [] file.state = "empty" -> libEmpty
      [] file.state = "malformed" -> "BadZipFile"
      [] file.state = "undecodable" -> "ValueError"
      [] OTHER -> "none"

\* pd.read_json
read_json(file) ==
    CASE file.state = "absent" -> "FileNotFoundError"
      [] file.state = "unreadable" -> "PermissionError"
      [] file.state = "empty" -> libEmpty
      [] file.state = "malformed" -> "ValueError"
      [] file.state = "undecodable" -> "UnicodeDecodeError"
      [] OTHER -> "none"

(* ------------------------- the except clauses -------------------------- *)
Handler(catch, raise, template, withText) ==
    [catch |-> catch, raise |-> raise, template |-> template, withText |-> withText]

CsvHandlersNoParserError ==
    << Handler("FileNotFoundError", "FileNotFoundError", "not found", FALSE),
       Handler("EmptyDataError", "ValueError", "is empty", FALSE) >>
CsvHandlersNoEmpty ==
    << Handler("FileNotFoundError", "FileNotFoundError", "not found", FALSE),
       Handler("ParserError", "ValueError", "could not be parsed", FALSE) >>
CsvHandlers ==
    << Handler("FileNotFoundError", "FileNotFoundError", "not found", FALSE),
       Handler("EmptyDataError", "ValueError", "is empty", FALSE),
       Handler("ParserError", "ValueError", "could not be parsed", FALSE) >>

ExcelHandlersValueOnly ==
    << Handler("FileNotFoundError", "FileNotFoundError", "not found", FALSE),
       Handler("EmptyDataError", "ValueError", "is empty", FALSE),
       Handler("ValueError", "ValueError", "could not be parsed", TRUE) >>
ExcelHandlers ==
    << Handler("FileNotFoundError", "FileNotFoundError", "not found", FALSE),
       Handler("EmptyDataError", "ValueError", "is empty", FALSE),
       Handler("Exception", "ValueError", "could not be parsed", TRUE) >>

JsonHandlersNoNotFound ==
    << Handler("EmptyDataError", "ValueError", "is empty", FALSE),
       Handler("ValueError", "ValueError", "could not be parsed", TRUE) >>
JsonHandlers ==
    << Handler("FileNotFoundError", "FileNotFoundError", "not found", FALSE),
       Handler("EmptyDataError", "ValueError", "is empty", FALSE),
       Handler("ValueError", "ValueError", "could not be parsed", TRUE) >>

\* try/except: the first clause whose class the raised exception is an
\* instance of handles it, raising the renamed exception "from e"; with no
\* matching clause the library exception propagates as it is.
Handle(handlers, format, cls, f) ==
    LET matching == {i \in 1..Len(handlers) : IsInstance(cls, handlers[i].catch)}
    IN  IF matching = {} THEN LibraryError(cls, f)
        ELSE LET h == handlers[CHOOSE i \in matching : \A j \in matching : i <= j]
             IN  [cls |-> h.raise, template |-> h.template, format |-> format,
                  filename |-> f,
                  detail |-> IF h.withText THEN ErrText(cls) ELSE "none",
                  value |-> <<>>, cause |-> cls]

\* The else branch, line 101: the message holds the local filetype.
InvalidTypeErrorNoValue(ft) ==
    [cls |-> "ValueError", template |-> "Invalid file type specified",
     format |-> "none", filename |-> "none", detail |-> "none",
     value |-> <<>>, cause |-> "none"]
InvalidTypeError(ft) ==
    [cls |-> "ValueError", template |-> "Invalid file type specified",
     format |-> "none", filename |-> "none", detail |-> "none",
     value |-> ft, cause |-> "none"]

\* The error kinds of the specification, told apart as a caller can: by the
\* message the loader wrote; an exception the loader did not write is the
\* library's own.
Kind(e) ==
    CASE e.template = "not found" /\ e.cls = "FileNotFoundError" -> "NotFound"
      [] e.template \in {"is empty", "could not be parsed"} /\ e.cls = "ValueError"
            -> "ParseFailure"
      [] e.template = "Invalid file type specified" /\ e.cls = "ValueError"
            -> "InvalidFormat"
      [] e.template = "library" -> "Raw"
      [] OTHER -> "none"

(* ------------------------- load_data ----------------------------------- *)
\* The branch of the if/elif chain of lines 61-101 a local filetype takes.
BranchDefaultCsv(ft) ==
    CASE ft = EXCEL -> "excel"
      [] ft = JSON -> "json"
      [] OTHER -> "csv"
Branch(ft) ==
    CASE ft = CSV -> "csv"
      [] ft = EXCEL -> "excel"
      [] ft = JSON -> "json"
      [] OTHER -> "else"

\* The local data a caller logs and returns.
DataOfFirst(c) ==
    LET holding == {d \in Callers : pc[d] \in {"log", "return"}}
    IN  IF holding = {} THEN data[c] ELSE data[CHOOSE d \in holding : TRUE]
DataOf(c) == data[c]

\* The record of line 103: the row count and the path.
LogRecord(d, f) == [rows |-> RowCount(d), filename |-> f]

\* logging.info at level INFO (line 52): the record is emitted.
EmitNothing(records, r) == records
Emit(records, r) == Append(records, r)

Init ==
    /\ fs \in [Paths -> FileRecs]
    \* libEmpty is read only when a parser meets a zero-byte file
    /\ libEmpty \in IF \E p \in Paths : fs[p].state = "empty"
                     THEN {"EmptyDataError", "ValueError"}
                     ELSE {"ValueError"}
    /\ pc = [c \in Callers |-> "idle"]
    /\ filename = [c \in Callers |-> "none"]
    /\ passed = [c \in Callers |-> <<>>]
    /\ filetype = [c \in Callers |-> <<>>]
    /\ data = [c \in Callers |-> NoData]
    /\ reads = [c \in Callers |-> {}]
    /\ error = [c \in Callers |-> NoError]
    /\ result = [c \in Callers |-> NoData]
    /\ log = <<>>
    /\ logged = [c \in Callers |-> <<>>]
    /\ nCalls = 0
    /\ nReturned = 0

\* Lines 56-59: a caller enters load_data(f, ft); filetype = filetype.lower().
Call(c, f, ft) ==
    /\ pc[c] \in {"idle", "returned", "raised"}
    /\ nCalls < MaxCalls
    /\ nCalls' = nCalls + 1
    /\ pc' = [pc EXCEPT ![c] = "dispatch"]
    /\ filename' = [filename EXCEPT ![c] = f]
    /\ passed' = [passed EXCEPT ![c] = ft]
    /\ filetype' = [filetype EXCEPT ![c] = Lower(ft)]
    /\ data' = [data EXCEPT ![c] = NoData]
    /\ reads' = [reads EXCEPT ![c] = {}]
    /\ error' = [error EXCEPT ![c] = NoError]
    /\ result' = [result EXCEPT ![c] = NoData]
    /\ logged' = [logged EXCEPT ![c] = <<>>]
    /\ UNCHANGED <<fs, libEmpty, log, nReturned>>

\* One try/except of lines 62-98: the parser reads the file; its dataset
\* becomes data, its exception goes through the except clauses.
TryRead(c, parser, raised, handlers, format) ==
    /\ reads' = [reads EXCEPT ![c] = @ \cup {<<parser, filename[c]>>}]
    /\ IF raised = "none"
       THEN /\ data' = [data EXCEPT ![c] = fs[filename[c]].data]
            /\ pc' = [pc EXCEPT ![c] = "log"]
            /\ UNCHANGED error
       ELSE /\ error' = [error EXCEPT ![c] = Handle(handlers, format, raised, filename[c])]
            /\ pc' = [pc EXCEPT ![c] = "raised"]
            /\ UNCHANGED data
    /\ UNCHANGED <<fs, libEmpty, filename, passed, filetype, result, log,
                   logged, nCalls, nReturned>>

\* Lines 61-72
ReadCsv(c) ==
    /\ pc[c] = "dispatch"
    /\ Branch(filetype[c]) = "csv"
    /\ TryRead(c, "read_csv", read_csv(fs[filename[c]]), CsvHandlers, "CSV")

\* Lines 74-85
ReadExcel(c) ==
    /\ pc[c] = "dispatch"
    /\ Branch(filetype[c]) = "excel"
    /\ TryRead(c, "read_excel", read_excel(fs[filename[c]]), ExcelHandlers, "Excel")

\* Lines 87-98
ReadJson(c) ==
    /\ pc[c] = "dispatch"
    /\ Branch(filetype[c]) = "json"
    /\ TryRead(c, "read_json", read_json(fs[filename[c]]), JsonHandlers, "JSON")

\* Lines 100-101
InvalidType(c) ==
    /\ pc[c] = "dispatch"
    /\ Branch(filetype[c]) = "else"
    /\ error' = [error EXCEPT ![c] = InvalidTypeError(filetype[c])]
    /\ pc' = [pc EXCEPT ![c] = "raised"]
    /\ UNCHANGED <<fs, libEmpty, filename, passed, filetype, data, reads,
                   result, log, logged, nCalls, nReturned>>

\* Line 103: logging.info(f"{len(data)} rows returned successfully from {filename}!")
LogInfo(c) ==
    /\ pc[c] = "log"
    /\ log' = Emit(log, LogRecord(DataOf(c), filename[c]))
    /\ logged' = [logged EXCEPT ![c] = Emit(@, LogRecord(DataOf(c), filename[c]))]
    /\ pc' = [pc EXCEPT ![c] = "return"]
    /\ UNCHANGED <<fs, libEmpty, filename, passed, filetype, data, reads,
                   error, result, nCalls, nReturned>>

\* Line 104: return data
Return(c) ==
    /\ pc[c] = "return"
    /\ result' = [result EXCEPT ![c] = DataOf(c)]
    /\ nReturned' = nReturned + 1
    /\ pc' = [pc EXCEPT ![c] = "returned"]
    /\ UNCHANGED <<fs, libEmpty, filename, passed, filetype, data, reads,
                   error, log, logged, nCalls>>

Next ==
    \E c \in Callers :
        \/ \E f \in Paths, ft \in FileTypes : Call(c, f, ft)
        \/ ReadCsv(c)
        \/ ReadExcel(c)
        \/ ReadJson(c)
        \/ InvalidType(c)
        \/ LogInfo(c)
        \/ Return(c)

Spec == Init /\ [][Next]_vars

(* ======================= properties ==================================== *)
\* Two filetype arguments that differ at most in the case of their letters.
SameIgnoringCase(s, t) ==
    /\ Len(s) = Len(t)
    /\ \A i \in 1..Len(s) :
          \/ s[i] = t[i]
          \/ \E k \in 1..Len(Uppercase) : {s[i], t[i]} = {Uppercase[k], Lowercase[k]}

\* The format a filetype argument names, "else" when it names none.
Names(ft) ==
    CASE SameIgnoringCase(ft, CSV) -> "csv"
      [] SameIgnoringCase(ft, EXCEL) -> "excel"
      [] SameIgnoringCase(ft, JSON) -> "json"
      [] OTHER -> "else"

InCall(c) == pc[c] # "idle"
Finished(c) == pc[c] \in {"returned", "raised"}
PastDispatch(c) == pc[c] \in {"log", "return", "returned", "raised"}
File(c) == fs[filename[c]]

\* The class of the exception the parser raised in a failed call.
Original(e) == IF e.template = "library" THEN e.cls ELSE e.cause

TypeOK ==
    /\ fs \in [Paths -> FileRecs]
    /\ pc \in [Callers -> {"idle", "dispatch", "log", "return", "returned", "raised"}]
    /\ nCalls \in 0..MaxCalls
    /\ nReturned \in 0..nCalls
    /\ \A c \in Callers :
          /\ InCall(c) => filename[c] \in Paths /\ passed[c] \in FileTypes
          /\ data[c] \in Datasets \cup {NoData}
          /\ result[c] \in Datasets \cup {NoData}

(* ----------------------------- C1 -------------------------------------- *)
\* C1: a call whose filetype names none of csv, excel, json (ignoring case)
\* invokes no parser at any point and, once it has failed, has failed with
\* InvalidFormat, also when nothing exists at the path; it never succeeds.
C1_InvalidTypeNoFileAccess ==
    \A c \in Callers :
        (InCall(c) /\ Names(passed[c]) = "else") =>
            /\ reads[c] = {}
            /\ pc[c] \in {"dispatch", "raised"}
            /\ pc[c] = "raised" => Kind(error[c]) = "InvalidFormat"

C1_Witness ==
    \E c \in Callers :
        /\ pc[c] = "raised"
        /\ Names(passed[c]) = "else"
        /\ File(c).state = "absent"
        /\ Kind(error[c]) = "InvalidFormat"
        /\ reads[c] = {}

(* ----------------------------- C2 -------------------------------------- *)
\* C2 as stated: for each supported format, a call on a path where the file
\* does not exist or is unreadable fails with NotFound.
C2_AbsentOrUnreadableIsNotFound ==
    \A c \in Callers :
        (PastDispatch(c) /\ Names(passed[c]) # "else"
            /\ File(c).state \in {"absent", "unreadable"}) =>
            pc[c] = "raised" /\ Kind(error[c]) = "NotFound"

\* C2 amended: for each supported format, a call on a path where no file
\* exists (the parser raising FileNotFoundError) fails with NotFound, naming
\* the path and keeping the parser's exception as cause; a call on a file
\* that exists but is unreadable fails too, but not with NotFound.
C2_AbsentIsNotFound ==
    \A c \in Callers :
        /\ (PastDispatch(c) /\ Names(passed[c]) # "else" /\ File(c).state = "absent") =>
              /\ pc[c] = "raised"
              /\ Kind(error[c]) = "NotFound"
              /\ error[c].filename = filename[c]
              /\ error[c].cause = "FileNotFoundError"
        /\ (PastDispatch(c) /\ Names(passed[c]) # "else" /\ File(c).state = "unreadable") =>
              /\ pc[c] = "raised"
              /\ Kind(error[c]) = IF Names(passed[c]) = "excel" THEN "ParseFailure" ELSE "Raw"

C2_Witness ==
    \E c, d \in Callers :
        /\ pc[c] = "raised" /\ pc[d] = "raised"
        /\ Names(passed[c]) = "json" /\ Names(passed[d]) = "csv"
        /\ File(c).state = "absent" /\ File(d).state = "absent"
        /\ Kind(error[c]) = "NotFound" /\ Kind(error[d]) = "NotFound"

(* ----------------------------- C3 -------------------------------------- *)
\* C3 as stated: for each supported format, every failed call has failed
\* with NotFound or ParseFailure; no exception of the parser reaches the
\* caller as the library raised it.
C3_EveryParserFailureRenamed ==
    \A c \in Callers :
        (pc[c] = "raised" /\ Names(passed[c]) # "else") =>
            Kind(error[c]) \in {"NotFound", "ParseFailure"}

\* The parser exceptions each branch has an except clause for.
Caught(format, cls) ==
    CASE format = "csv" -> cls \in {"FileNotFoundError", "EmptyDataError", "ParserError"}
      [] format = "excel" -> TRUE
      [] format = "json" ->
            cls \in {"FileNotFoundError", "EmptyDataError", "ValueError",
                      "UnicodeDecodeError", "ParserError"}
      [] OTHER -> FALSE

\* C3 amended: a parser failure is re-signaled as NotFound or ParseFailure
\* exactly when its branch has a clause for its class: for csv
\* FileNotFoundError, EmptyDataError and ParserError; for json
\* FileNotFoundError and every ValueError (EmptyDataError and
\* UnicodeDecodeError among them); for excel every exception. Any other
\* parser failure (an unreadable file's PermissionError for csv and json, a
\* UnicodeDecodeError for csv) reaches the caller as the library raised it.
C3_CaughtClassesRenamed ==
    \A c \in Callers :
        (pc[c] = "raised" /\ Names(passed[c]) # "else") =>
            IF Caught(Names(passed[c]), Original(error[c]))
            THEN /\ Kind(error[c]) \in {"NotFound", "ParseFailure"}
                 /\ error[c].cause = Original(error[c])
                 /\ error[c].filename = filename[c]
            ELSE error[c] = LibraryError(Original(error[c]), filename[c])

C3_Witness ==
    \E c, d \in Callers :
        /\ pc[c] = "raised" /\ pc[d] = "raised"
        /\ Names(passed[c]) = "csv" /\ Names(passed[d]) = "csv"
        /\ File(c).state = "malformed" /\ Kind(error[c]) = "ParseFailure"
        /\ File(d).state = "undecodable" /\ Kind(error[d]) = "Raw"

(* ----------------------------- C4 -------------------------------------- *)
\* C4: for each supported format, a call on an existing zero-byte file
\* fails with ParseFailure: it never returns a dataset and never fails
\* with NotFound, InvalidFormat or the library's own exception.
C4_EmptyFileIsParseFailure ==
    \A c \in Callers :
        (PastDispatch(c) /\ Names(passed[c]) # "else" /\ File(c).state = "empty") =>
            /\ pc[c] = "raised"
            /\ Kind(error[c]) = "ParseFailure"
            /\ result[c] = NoData

C4_Witness ==
    \E c, d \in Callers :
        /\ pc[c] = "raised" /\ pc[d] = "raised"
        /\ Names(passed[c]) = "csv" /\ Names(passed[d]) \in {"excel", "json"}
        /\ File(c).state = "empty" /\ File(d).state = "empty"
        /\ Kind(error[c]) = "ParseFailure" /\ Kind(error[d]) = "ParseFailure"
        /\ Original(error[c]) = "EmptyDataError"

(* ----------------------------- C5 -------------------------------------- *)
\* C5: two finished calls on the same path whose filetype arguments differ
\* only in case have invoked the same parser and have the same outcome: the
\* same dataset returned, or the same exception with the same message, and
\* the same log record.
C5_CaseInsensitive ==
    \A c, d \in Callers :
        (Finished(c) /\ Finished(d) /\ filename[c] = filename[d]
            /\ SameIgnoringCase(passed[c], passed[d])) =>
            /\ pc[c] = pc[d]
            /\ reads[c] = reads[d]
            /\ result[c] = result[d]
            /\ error[c] = error[d]
            /\ logged[c] = logged[d]

C5_Witness ==
    \E c, d \in Callers :
        /\ pc[c] = "returned" /\ pc[d] = "returned"
        /\ filename[c] = filename[d]
        /\ passed[c] = CSV /\ passed[d] = <<"C","S","V">>
        /\ Len(result[c].rows) > 0
        /\ result[c] = result[d]

(* ----------------------------- C6 -------------------------------------- *)
\* C6: the log holds one record per call that has returned, plus the record
\* of each call that has logged and is about to return; a call emits its
\* one record after its parser has succeeded and before it returns, and a
\* call that fails emits none.
C6_OneLogPerSuccess ==
    /\ Len(log) = nReturned + Cardinality({c \in Callers : pc[c] = "return"})
    /\ \A c \in Callers :
          /\ pc[c] \in {"dispatch", "log", "raised"} => logged[c] = <<>>
          /\ pc[c] \in {"return", "returned"} =>
                Len(logged[c]) = 1 /\ reads[c] # {} /\ error[c] = NoError
          /\ pc[c] = "return" => result[c] = NoData
    /\ (\A c \in Callers : pc[c] # "return") => Len(log) = nReturned

C6_Witness ==
    /\ nCalls = 2
    /\ nReturned = 1
    /\ Len(log) = 1
    /\ \E c, d \in Callers :
          /\ pc[c] = "returned" /\ pc[d] = "raised"
          /\ Kind(error[d]) = "ParseFailure"

(* ----------------------------- C7 -------------------------------------- *)
\* C7: a call that has returned has returned exactly the dataset of the
\* file at its path, rows and columns as the parser produced them, and the
\* one record it logged states that dataset's number of rows and the path.
C7_ReturnsParsedDataset ==
    \A c \in Callers :
        pc[c] = "returned" =>
            /\ File(c).state = "ok"
            /\ result[c] = File(c).data
            /\ logged[c] = << [rows |-> Len(result[c].rows), filename |-> filename[c]] >>

C7_Witness ==
    \E c \in Callers :
        /\ pc[c] = "returned"
        /\ Len(File(c).data.rows) = 2
        /\ result[c].columns = Header
        /\ result[c].rows = <<Row(1), Row(2)>>
        /\ logged[c][1].rows = 2

(* ----------------------------- C8 -------------------------------------- *)
\* load_data(f, ft) run from entry to exit with no other call in progress:
\* how it ends, what it returns, what it raises.
Alone(f, ft) ==
    LET local == Lower(ft)
        branch == Branch(local)
        raised == CASE branch = "csv" -> read_csv(fs[f])
                    [] branch = "excel" -> read_excel(fs[f])
                    [] branch = "json" -> read_json(fs[f])
                    [] OTHER -> "none"
        handlers == CASE branch = "csv" -> CsvHandlers
                      [] branch = "excel" -> ExcelHandlers
                      [] OTHER -> JsonHandlers
        format == CASE branch = "csv" -> "CSV"
                    [] branch = "excel" -> "Excel"
                    [] OTHER -> "JSON"
    IN  IF branch = "else"
        THEN [pc |-> "raised", result |-> NoData, error |-> InvalidTypeError(local)]
        ELSE IF raised = "none"
        THEN [pc |-> "returned", result |-> fs[f].data, error |-> NoError]
        ELSE [pc |-> "raised", result |-> NoData,
              error |-> Handle(handlers, format, raised, f)]

\* C8: whatever calls ran before it or run interleaved with it, a finished
\* call has the outcome (the dataset returned or the exception raised) of
\* the same call executed alone on the same files.
C8_OutcomeAsIfAlone ==
    \A c \in Callers :
        Finished(c) =>
            [pc |-> pc[c], result |-> result[c], error |-> error[c]]
                = Alone(filename[c], passed[c])

\* The files never change.
C8_FilesUnchanged == [][fs' = fs /\ libEmpty' = libEmpty]_vars

\* Caller c has logged and returned while d, which logged first, was still
\* inside its own call on another file with another dataset.
C8_Witness ==
    \E c, d \in Callers :
        /\ c # d
        /\ pc[c] = "returned" /\ pc[d] = "return"
        /\ nCalls = 2
        /\ filename[c] # filename[d]
        /\ File(c).data # File(d).data
        /\ log = <<logged[d][1], logged[c][1]>>
        /\ result[c] = File(c).data

(* ----------------------------- C9 -------------------------------------- *)
\* C9 as stated: the InvalidFormat error carries the filetype value the
\* caller passed, upper-case letters included.
C9_CarriesValuePassed ==
    \A c \in Callers :
        (pc[c] = "raised" /\ Kind(error[c]) = "InvalidFormat") =>
            error[c].value = passed[c]

\* C9 amended: the InvalidFormat error carries the lower-cased form of the
\* filetype value the caller passed: "xml" for "XML".
C9_CarriesLoweredValue ==
    \A c \in Callers :
        (pc[c] = "raised" /\ Kind(error[c]) = "InvalidFormat") =>
            /\ SameIgnoringCase(error[c].value, passed[c])
            /\ \A i \in 1..Len(error[c].value) :
                  \A k \in 1..Len(Uppercase) : error[c].value[i] # Uppercase[k]
            /\ passed[c] = <<"X","M","L">> => error[c].value = <<"x","m","l">>

C9_Witness ==
    \E c \in Callers :
        /\ pc[c] = "raised"
        /\ passed[c] = <<"X","M","L">>
        /\ Kind(error[c]) = "InvalidFormat"
        /\ error[c].value = <<"x","m","l">>

(* ----------------------------- C10 ------------------------------------- *)
\* C10 as stated: for excel and json alike, a parser failure of any class
\* other than FileNotFoundError and EmptyDataError becomes ParseFailure
\* carrying the text of the original error.
C10_AnyFailureFolded ==
    \A c \in Callers :
        (pc[c] = "raised" /\ Names(passed[c]) \in {"excel", "json"}
            /\ Original(error[c]) \notin {"FileNotFoundError", "EmptyDataError"}) =>
            /\ Kind(error[c]) = "ParseFailure"
            /\ error[c].detail = ErrText(Original(error[c]))

\* C10 amended: for excel, a parser failure of any class other than
\* FileNotFoundError and EmptyDataError becomes ParseFailure carrying the
\* text of the original error; for json this holds only of the failures
\* that are ValueErrors (UnicodeDecodeError among them), and a failure of
\* any other class (an unreadable file's PermissionError) reaches the
\* caller as the library raised it.
C10_FoldedPerFormat ==
    \A c \in Callers :
        (pc[c] = "raised" /\ Names(passed[c]) \in {"excel", "json"}
            /\ Original(error[c]) \notin {"FileNotFoundError", "EmptyDataError"}) =>
            IF \/ Names(passed[c]) = "excel"
               \/ Original(error[c]) \in {"ValueError", "UnicodeDecodeError", "ParserError"}
            THEN /\ Kind(error[c]) = "ParseFailure"
                 /\ error[c].template = "could not be parsed"
                 /\ error[c].detail = ErrText(Original(error[c]))
                 /\ error[c].filename = filename[c]
            ELSE error[c] = LibraryError(Original(error[c]), filename[c])

C10_Witness ==
    \E c, d \in Callers :
        /\ pc[c] = "raised" /\ pc[d] = "raised"
        /\ Names(passed[c]) = "excel" /\ Names(passed[d]) = "json"
        /\ Original(error[c]) = "BadZipFile" /\ Kind(error[c]) = "ParseFailure"
        /\ Original(error[d]) = "PermissionError" /\ Kind(error[d]) = "Raw"
====
